---- MODULE Spec2Model ----
(***************************************************************************)
(* A model of the tool handlers of the SUSE Observability MCP server:      *)
(* GetComponents, GetMonitors, ListMetrics and QueryRangeMetric.  One      *)
(* behaviour is one tool invocation: the handler runs from its entry to    *)
(* its return, and every call to the backend client is a point where the   *)
(* handler waits for a response the backend chooses.                       *)
(***************************************************************************)
EXTENDS Integers, Sequences, FiniteSets, TLC

VARIABLES
    tool,         \* the handler invoked
    params,       \* its parameter struct
    pc,           \* where the handler is: "start", a backend call in flight, "done"
    calls,        \* the backend calls issued so far, in order
    responses,    \* the backend's answers, responses[k] answering calls[k]
    result,       \* the *mcp.CallToolResult returned (IsNil until a result is returned)
    err,          \* the error returned (IsNil when none)
    query,        \* GetComponents: the local `query`
    state,        \* GetMonitors: the local `state`
    overview,     \* GetMonitors: overview.Monitors
    idx,          \* GetMonitors: position of the range loop in overview.Monitors
    rows,         \* GetMonitors: the local `rows`
    rowMonitor,   \* GetMonitors: for each row, the overview position of its monitor
    monitorCount, \* GetMonitors: the local `monitorCount`
    labelStore,   \* the backend's answer to a label lookup, per kind of metric name
    filteredMetrics,   \* ListMetrics: the local `filteredMetrics`
    metricsToProcess,  \* ListMetrics: the local `metricsToProcess`
    sb,           \* ListMetrics: the text written to the string builder so far
    table,        \* ListMetrics, formatMetrics: the header and the rows written
    ctx,          \* the request context: "active" or "canceled"
    invs,         \* concurrent invocations: per invocation, its parameters, position,
                  \* calls, responses and return values
    frames        \* concurrent invocations: per stack frame, the handler's locals

vars == <<tool, params, pc, calls, responses, result, err, query, state, overview, idx, rows,
          rowMonitor, monitorCount, labelStore, filteredMetrics, metricsToProcess, sb, table,
          ctx, invs, frames>>

metricVars == <<labelStore, filteredMetrics, metricsToProcess, sb, table>>
monitorVars == <<state, overview, idx, rows, rowMonitor, monitorCount, metricVars>>
handlerVars == <<tool, params, pc, calls, responses, result, err, query, monitorVars, ctx>>

(***************************************************************************)
(* Bounds of the model.                                                    *)
(***************************************************************************)
MaxComponents == 2      \* longest topology response
MaxMonitors == 2        \* longest monitor overview
MaxAffected == 11       \* most entities a monitor has in one health state

(***************************************************************************)
(* Go values.                                                              *)
(***************************************************************************)
NilResult == [IsNil |-> TRUE, Text |-> ""]
TextResult(text) == [IsNil |-> FALSE, Text |-> text]
NilError == [IsNil |-> TRUE, Msg |-> ""]
Errorf(msg) == [IsNil |-> FALSE, Msg |-> msg]

Min(a, b) == IF a <= b THEN a ELSE b

\* The header and the rows of a Markdown table, before anything is written.
EmptyTable == [header |-> <<>>, rows |-> <<>>]

\* The i-th byte of a string, as a string.
CharAt(s, i) == SubSeq(s, i, i)
StrTail(s) == SubSeq(s, 2, Len(s))

\* strings.Join
RECURSIVE Join(_, _)
Join(elems, sep) ==
    IF Len(elems) = 0 THEN ""
    ELSE IF Len(elems) = 1 THEN elems[1]
    ELSE elems[1] \o sep \o Join(Tail(elems), sep)

\* All sequences over S of length at most n.
RECURSIVE SeqsUpTo(_, _)
SeqsUpTo(S, n) ==
    IF n = 0 THEN {<<>>}
    ELSE LET shorter == SeqsUpTo(S, n - 1)
         IN  shorter \cup {Append(s, x) : s \in {t \in shorter : Len(t) = n - 1}, x \in S}

\* Errors a backend call can return.
BackendErrors == {"connection refused"}

\* The errors a backend call can end with: after the request context is
\* canceled, the context's error.
CallErrors == IF ctx = "canceled" THEN {"context canceled"} ELSE BackendErrors

(***************************************************************************)
(* GetComponents                                                           *)
(***************************************************************************)
GetComponentsParams ==
    [Query : {"", "layer = \"Containers\""},
     NamePattern : {"", "redis*", "a\"b"},
     Type : {"", "pod"},
     Layer : {"", "Services"},
     Domain : {"", "cluster.example.com"},
     HealthState : {"", "CRITICAL"},
     WithNeighbors : BOOLEAN,
     WithNeighborsLevels : {"", "2", "all", "15"},
     WithNeighborsDirection : {"", "up", "down", "both", "sideways"}]

\* A builder that appends the type clause before the name clause.
QueryParts_TypeFirst(p) ==
    (IF p.Type # "" THEN <<"type = \"" \o p.Type \o "\"">> ELSE <<>>)
    \o (IF p.NamePattern # "" THEN <<"name = \"" \o p.NamePattern \o "\"">> ELSE <<>>)
    \o (IF p.Layer # "" THEN <<"layer = \"" \o p.Layer \o "\"">> ELSE <<>>)
    \o (IF p.Domain # "" THEN <<"domain = \"" \o p.Domain \o "\"">> ELSE <<>>)
    \o (IF p.HealthState # "" THEN <<"healthstate = \"" \o p.HealthState \o "\"">> ELSE <<>>)

\* The clauses appended to queryParts, in the order the code appends them.
QueryParts(p) ==
    (IF p.NamePattern # "" THEN <<"name = \"" \o p.NamePattern \o "\"">> ELSE <<>>)
    \o (IF p.Type # "" THEN <<"type = \"" \o p.Type \o "\"">> ELSE <<>>)
    \o (IF p.Layer # "" THEN <<"layer = \"" \o p.Layer \o "\"">> ELSE <<>>)
    \o (IF p.Domain # "" THEN <<"domain = \"" \o p.Domain \o "\"">> ELSE <<>>)
    \o (IF p.HealthState # "" THEN <<"healthstate = \"" \o p.HealthState \o "\"">> ELSE <<>>)

\* The query after the basic filters are combined.
BaseQuery(p) ==
    IF Len(QueryParts(p)) > 0 THEN Join(QueryParts(p), " AND ") ELSE ""

DefaultLevels(levels) == IF levels = "" THEN "1" ELSE levels
DefaultDirection(direction) == IF direction = "" THEN "both" ELSE direction
validDirections == {"up", "down", "both"}

\* A rewrite that returns the neighbors alone, without the base filters.
NeighborsQuery_NeighborsOnly(base, levels, direction) ==
    "withNeighborsOf(components = (" \o base \o "), levels = \""
         \o levels \o "\", direction = \"" \o direction \o "\")"

\* The withNeighborsOf function combined with the base filters.
NeighborsQuery(base, levels, direction) ==
    base \o " OR " \o "withNeighborsOf(components = (" \o base \o "), levels = \""
         \o levels \o "\", direction = \"" \o direction \o "\")"

\* The filter branch of GetComponents: the query built from the simple
\* filters, or the error the branch returns.
FilterQuery(p) ==
    LET base == BaseQuery(p)
        levels == DefaultLevels(p.WithNeighborsLevels)
        direction == DefaultDirection(p.WithNeighborsDirection)
    IN  IF ~p.WithNeighbors THEN [err |-> NilError, query |-> base]
        ELSE IF base = ""
        THEN [err |-> Errorf("with_neighbors requires at least one filter to define the components"),
              query |-> base]
        ELSE IF direction \notin validDirections
        THEN [err |-> Errorf("invalid with_neighbors_direction '" \o direction
                              \o "'. Must be 'up', 'down', or 'both'"),
              query |-> base]
        ELSE [err |-> NilError, query |-> NeighborsQuery(base, levels, direction)]

\* A builder that merges the named filters into a raw query.
BuildQuery_MergesFilters(p) ==
    LET built == IF p.Query # ""
                 THEN [err |-> NilError,
                       query |-> IF BaseQuery(p) # "" THEN p.Query \o " AND " \o BaseQuery(p)
                                 ELSE p.Query]
                 ELSE FilterQuery(p)
    IN  IF ~built.err.IsNil THEN built
        ELSE IF built.query = ""
        THEN [err |-> Errorf("either 'query' or at least one filter (name_pattern, type, layer, domain, healthstate) must be provided"),
              query |-> ""]
        ELSE built

\* A builder that validates the neighbor direction before it looks at the
\* raw query.
BuildQuery_ValidatesDirectionFirst(p) ==
    LET direction == DefaultDirection(p.WithNeighborsDirection)
        built == IF p.WithNeighbors /\ direction \notin validDirections
                 THEN [err |-> Errorf("invalid with_neighbors_direction '" \o direction
                                       \o "'. Must be 'up', 'down', or 'both'"),
                       query |-> ""]
                 ELSE IF p.Query # "" THEN [err |-> NilError, query |-> p.Query]
                 ELSE FilterQuery(p)
    IN  IF ~built.err.IsNil THEN built
        ELSE IF built.query = ""
        THEN [err |-> Errorf("either 'query' or at least one filter (name_pattern, type, layer, domain, healthstate) must be provided"),
              query |-> ""]
        ELSE built

\* GetComponents up to the topology call: the query to execute, or the error.
BuildQuery(p) ==
    LET built == IF p.Query # "" THEN [err |-> NilError, query |-> p.Query]
                 ELSE FilterQuery(p)
    IN  IF ~built.err.IsNil THEN built
        ELSE IF built.query = ""
        THEN [err |-> Errorf("either 'query' or at least one filter (name_pattern, type, layer, domain, healthstate) must be provided"),
              query |-> ""]
        ELSE built

\* The topology the backend can answer with.
ViewComponents ==
    {[ID |-> 1, Name |-> "redis-0", InternalType |-> "pod", Identifiers |-> <<>>,
      Tags |-> <<"app:redis">>, OutgoingRelations |-> <<>>],
     [ID |-> 2, Name |-> "checkout", InternalType |-> "service",
      Identifiers |-> <<"urn:a", "urn:b", "urn:c">>,
      Tags |-> <<>>, OutgoingRelations |-> <<1>>]}

TopologyResponses == SeqsUpTo(ViewComponents, MaxComponents)

simplifyViewComponents(components) ==
    [i \in 1..Len(components) |->
        [ID |-> components[i].ID,
         Name |-> components[i].Name,
         Type |-> components[i].InternalType,
         Identifiers |-> components[i].Identifiers,
         Tags |-> components[i].Tags,
         Relations |-> components[i].OutgoingRelations]]

\* The summary filters of the components table.
SummaryFilters(p) ==
    (IF p.NamePattern # "" THEN <<"name: " \o p.NamePattern>> ELSE <<>>)
    \o (IF p.Type # "" THEN <<"type: " \o p.Type>> ELSE <<>>)
    \o (IF p.Layer # "" THEN <<"layer: " \o p.Layer>> ELSE <<>>)
    \o (IF p.Domain # "" THEN <<"domain: " \o p.Domain>> ELSE <<>>)
    \o (IF p.HealthState # "" THEN <<"healthstate: " \o p.HealthState>> ELSE <<>>)

identifiersStr(c) ==
    IF Len(c.Identifiers) = 0 THEN "-"
    ELSE IF Len(c.Identifiers) > 2 THEN Join(SubSeq(c.Identifiers, 1, 2), ", ") \o "..."
    ELSE Join(c.Identifiers, ", ")

ComponentRow(c) ==
    "| " \o c.Name \o " | " \o c.Type \o " | " \o ToString(c.ID) \o " | "
         \o identifiersStr(c) \o " |\n"

RECURSIVE ComponentRows(_)
ComponentRows(components) ==
    IF Len(components) = 0 THEN ""
    ELSE ComponentRow(components[1]) \o ComponentRows(Tail(components))

\* A table whose empty message carries the raw query parameter.
formatComponentsTable_EchoesRawQuery(components, p, q) ==
    IF Len(components) = 0 THEN "No components found for query: " \o p.Query
    ELSE "Found " \o ToString(Len(components)) \o " component(s):\n\n"
         \o "| Component Name | Type | ID | Identifiers |\n"
         \o "|---|---|---|---|\n"
         \o ComponentRows(components)

formatComponentsTable(components, p, q) ==
    IF Len(components) = 0 THEN "No components found for query: " \o q
    ELSE "Found " \o ToString(Len(components)) \o " component(s)"
         \o (IF p.Query # "" THEN " for query: " \o p.Query
             ELSE IF Len(SummaryFilters(p)) > 0
                  THEN " (" \o Join(SummaryFilters(p), ", ") \o ")"
                  ELSE "")
         \o ":\n\n"
         \o "| Component Name | Type | ID | Identifiers |\n"
         \o "|---|---|---|---|\n"
         \o ComponentRows(components)

\* GetComponents from its entry to the topology call or to a validation error.
GetComponentsStart ==
    /\ tool = "GetComponents"
    /\ pc = "start"
    /\ LET built == BuildQuery(params)
       IN  /\ query' = built.query
           /\ IF built.err.IsNil
              THEN /\ calls' = Append(calls, [op |-> "SnapShotTopologyQuery",
                                              args |-> <<built.query>>])
                   /\ pc' = "topology"
                   /\ UNCHANGED <<result, err>>
              ELSE /\ err' = built.err
                   /\ pc' = "done"
                   /\ UNCHANGED <<result, calls>>
    /\ UNCHANGED <<tool, params, ctx, invs, frames, responses, monitorVars>>

\* The topology call fails.
TopologyFails ==
    /\ tool = "GetComponents"
    /\ pc = "topology"
    /\ \E e \in CallErrors :
          /\ responses' = Append(responses, [failed |-> TRUE, error |-> e])
          /\ err' = Errorf("failed to query topology (STQL: " \o query \o "): " \o e)
    /\ pc' = "done"
    /\ UNCHANGED <<tool, params, ctx, invs, frames, calls, result, query, monitorVars>>

\* The topology call returns components.
TopologyReturns ==
    /\ tool = "GetComponents"
    /\ pc = "topology"
    /\ ctx = "active"
    /\ \E components \in TopologyResponses :
          /\ responses' = Append(responses, [failed |-> FALSE, value |-> components])
          /\ result' = TextResult(formatComponentsTable(simplifyViewComponents(components),
                                                        params, query))
    /\ pc' = "done"
    /\ UNCHANGED <<tool, params, ctx, invs, frames, calls, err, query, monitorVars>>

(***************************************************************************)
(* GetMonitors                                                             *)
(***************************************************************************)
GetMonitorsParams == [State : {"", "CRITICAL", "DEVIATING", "UNKNOWN", "CLEAR"}]

DefaultState(st) == IF st = "" THEN "CRITICAL" ELSE st

\* A validation that lets the CLEAR state through.
validStates_WithClear == {"CRITICAL", "DEVIATING", "UNKNOWN", "CLEAR"}

validStates == {"CRITICAL", "DEVIATING", "UNKNOWN"}

maxComponents == 5      \* rows of affected components shown per monitor
checkStatesLimit == 10  \* page size asked of GetMonitorCheckStates
checkStatesOffset == 0  \* page offset asked of GetMonitorCheckStates
maxDescription == 50    \* longest description rendered in full
keptDescription == 47   \* bytes kept of a longer description

\* The monitors (definition and runtime metrics) the backend can hold.  Two of
\* them carry the same name: the backend identifies a monitor by its id.
MonitorKinds ==
    {[Name |-> "cpu-high", Description |-> "CPU usage is high",
      CriticalCount |-> 12, DeviatingCount |-> 0, UnknownCount |-> 2],
     [Name |-> "cpu-high", Description |-> "",
      CriticalCount |-> 1, DeviatingCount |-> 3, UnknownCount |-> 0],
     [Name |-> "disk-full", Description |-> "The disk of the node is filling up and will run out of space soon",
      CriticalCount |-> 0, DeviatingCount |-> 8, UnknownCount |-> 0]}

MonitorOverviews ==
    {[i \in 1..Len(s) |->
        [Monitor |-> [Id |-> 100 + i, Name |-> s[i].Name, Description |-> s[i].Description],
         RuntimeMetrics |-> [CriticalCount |-> s[i].CriticalCount,
                             DeviatingCount |-> s[i].DeviatingCount,
                             UnknownCount |-> s[i].UnknownCount]]]
     : s \in SeqsUpTo(MonitorKinds, MaxMonitors)}

\* The i-th entity a monitor has in the requested health state.
CheckStateAt(i) ==
    [Name |-> "host-" \o ToString(i),
     TopologyElementId |-> 1000 + i,
     TopologyElementIdType |-> IF i % 2 = 0 THEN "identifier" ELSE "id"]

\* The page of check states the backend returns for a monitor that has
\* `total` entities in the requested state.
CheckStatesPage(total, limit, offset) ==
    [i \in 1..(IF total > offset THEN Min(total - offset, limit) ELSE 0) |->
        CheckStateAt(offset + i)]

\* The counter of the requested state.
CountFor(metrics, st) ==
    CASE st = "CRITICAL" -> metrics.CriticalCount
      [] st = "DEVIATING" -> metrics.DeviatingCount
      [] st = "UNKNOWN" -> metrics.UnknownCount
      [] OTHER -> 0

\* A variant of the loop that skips no monitor.
NextMonitor_NoSkip(ov, from, st) == IF from > Len(ov) THEN Len(ov) + 1 ELSE from

\* The first position at or after `from` whose monitor is not skipped by the
\* loop, Len(ov) + 1 when the loop runs to its end.
RECURSIVE NextMonitor(_, _, _)
NextMonitor(ov, from, st) ==
    IF from > Len(ov) THEN Len(ov) + 1
    ELSE IF CountFor(ov[from].RuntimeMetrics, st) = 0 THEN NextMonitor(ov, from + 1, st)
    ELSE from

componentStr(checkState) ==
    LET componentRef ==
            IF checkState.TopologyElementIdType = "identifier"
            THEN "URN:" \o ToString(checkState.TopologyElementId)
            ELSE "ID:" \o ToString(checkState.TopologyElementId)
    IN  checkState.Name \o " (" \o componentRef \o ")"

FallbackRow(monitor, count) ==
    [Name |-> monitor.Name, Description |-> monitor.Description,
     AffectedCount |-> count, AffectedComponent |-> "-"]

ComponentRowsOf(monitor, count, states) ==
    [i \in 1..Min(Len(states), maxComponents) |->
        [Name |-> monitor.Name, Description |-> monitor.Description,
         AffectedCount |-> count, AffectedComponent |-> componentStr(states[i])]]

MoreRow(monitor, count, states) ==
    IF Len(states) > maxComponents
    THEN <<[Name |-> monitor.Name, Description |-> "-", AffectedCount |-> count,
            AffectedComponent |-> "... and " \o ToString(Len(states) - maxComponents) \o " more"]>>
    ELSE <<>>

\* An iteration that drops a monitor whose lookup failed.
MonitorRows_DropsFailed(monitor, count, failed, states) ==
    IF failed THEN <<>>
    ELSE IF Len(states) = 0 THEN <<FallbackRow(monitor, count)>>
    ELSE ComponentRowsOf(monitor, count, states) \o MoreRow(monitor, count, states)

\* The rows one iteration of the loop appends for a monitor that is not skipped.
MonitorRows(monitor, count, failed, states) ==
    IF failed \/ Len(states) = 0 THEN <<FallbackRow(monitor, count)>>
    ELSE ComponentRowsOf(monitor, count, states) \o MoreRow(monitor, count, states)

\* A summary count that counts the rows.
CountMonitors_CountsRows(rs, seenMonitors) == Len(rs)

\* The summary count: the rows whose name was not seen before.
RECURSIVE CountMonitors(_, _)
CountMonitors(rs, seenMonitors) ==
    IF Len(rs) = 0 THEN 0
    ELSE IF rs[1].Name \notin seenMonitors
         THEN 1 + CountMonitors(Tail(rs), seenMonitors \cup {rs[1].Name})
         ELSE CountMonitors(Tail(rs), seenMonitors)

renderDescription(description) ==
    LET desc == IF description = "" THEN "-" ELSE description
    IN  IF Len(desc) > maxDescription THEN SubSeq(desc, 1, keptDescription) \o "..." ELSE desc

RECURSIVE MonitorLines(_)
MonitorLines(rs) ==
    IF Len(rs) = 0 THEN ""
    ELSE "| " \o rs[1].Name \o " | " \o renderDescription(rs[1].Description) \o " | "
              \o ToString(rs[1].AffectedCount) \o " | " \o rs[1].AffectedComponent \o " |\n"
              \o MonitorLines(Tail(rs))

\* The output built from the collected rows.
MonitorsOutput(rs, st) ==
    IF Len(rs) = 0 THEN "No monitors in " \o st \o " state found."
    ELSE "Found " \o ToString(CountMonitors(rs, {})) \o " monitor(s) in " \o st \o " state:\n\n"
         \o "| Monitor Name | Description | Affected Count | Affected Component |\n"
         \o "|---|---|---|---|\n"
         \o MonitorLines(rs)

\* The loop over overview.Monitors from position `from` with the rows `rs`
\* collected so far: up to the next check-state call, or to the return.
ContinueMonitors(ov, from, st, rs) ==
    LET next == NextMonitor(ov, from, st)
    IN  /\ idx' = next
        /\ IF next <= Len(ov)
           THEN /\ calls' = Append(calls, [op |-> "GetMonitorCheckStates",
                                           args |-> <<ToString(ov[next].Monitor.Id), st,
                                                      checkStatesLimit, checkStatesOffset>>])
                /\ pc' = "checkstates"
                /\ UNCHANGED <<result, monitorCount>>
           ELSE /\ monitorCount' = CountMonitors(rs, {})
                /\ result' = TextResult(MonitorsOutput(rs, st))
                /\ pc' = "done"
                /\ UNCHANGED calls

\* GetMonitors from its entry to the overview call or to a validation error.
GetMonitorsStart ==
    /\ tool = "GetMonitors"
    /\ pc = "start"
    /\ state' = DefaultState(params.State)
    /\ IF DefaultState(params.State) \in validStates
       THEN /\ calls' = Append(calls, [op |-> "GetMonitorsOverview", args |-> <<>>])
            /\ pc' = "overview"
            /\ UNCHANGED err
       ELSE /\ err' = Errorf("invalid state '" \o DefaultState(params.State)
                             \o "'. Allowed values: CRITICAL, DEVIATING, UNKNOWN")
            /\ pc' = "done"
            /\ UNCHANGED calls
    /\ UNCHANGED <<tool, params, ctx, invs, frames, responses, result, query, overview, idx, rows, rowMonitor,
                   monitorCount, metricVars>>

\* A variant that asks for the overview once more after a failure.
OverviewFails_Retries ==
    /\ tool = "GetMonitors"
    /\ pc = "overview"
    /\ \E e \in CallErrors :
          /\ responses' = Append(responses, [failed |-> TRUE, error |-> e])
          /\ IF Len(calls) < 2
             THEN /\ calls' = Append(calls, [op |-> "GetMonitorsOverview", args |-> <<>>])
                  /\ UNCHANGED <<pc, err>>
             ELSE /\ err' = Errorf("failed to get monitors overview: " \o e)
                  /\ pc' = "done"
                  /\ UNCHANGED calls
    /\ UNCHANGED <<tool, params, ctx, invs, frames, result, query, monitorVars>>

\* The overview call fails.
OverviewFails ==
    /\ tool = "GetMonitors"
    /\ pc = "overview"
    /\ \E e \in CallErrors :
          /\ responses' = Append(responses, [failed |-> TRUE, error |-> e])
          /\ err' = Errorf("failed to get monitors overview: " \o e)
    /\ pc' = "done"
    /\ UNCHANGED <<tool, params, ctx, invs, frames, calls, result, query, monitorVars>>

\* The overview call returns the monitors; the loop runs to the first monitor
\* that is not skipped.
OverviewReturns ==
    /\ tool = "GetMonitors"
    /\ pc = "overview"
    /\ ctx = "active"
    /\ \E ov \in MonitorOverviews :
          /\ responses' = Append(responses, [failed |-> FALSE, value |-> ov])
          /\ overview' = ov
          /\ ContinueMonitors(ov, 1, state, rows)
    /\ UNCHANGED <<tool, params, ctx, invs, frames, err, query, state, rows, rowMonitor, metricVars>>

\* One iteration of the loop after its check-state call ended, and the loop
\* on to the next monitor that is not skipped.
AppendMonitorRows(failed, states) ==
    LET monitor == overview[idx].Monitor
        count == CountFor(overview[idx].RuntimeMetrics, state)
        new == MonitorRows(monitor, count, failed, states)
    IN  /\ rows' = rows \o new
        /\ rowMonitor' = rowMonitor \o [i \in 1..Len(new) |-> idx]
        /\ ContinueMonitors(overview, idx + 1, state, rows \o new)

\* The check-state call of the current monitor fails.
CheckStatesFails ==
    /\ tool = "GetMonitors"
    /\ pc = "checkstates"
    /\ \E e \in CallErrors :
          responses' = Append(responses, [failed |-> TRUE, error |-> e, mon |-> idx])
    /\ AppendMonitorRows(TRUE, <<>>)
    /\ UNCHANGED <<tool, params, ctx, invs, frames, err, query, state, overview, metricVars>>

\* The check-state call of the current monitor returns the first page of the
\* entities the monitor has in the requested state.
CheckStatesReturns ==
    /\ tool = "GetMonitors"
    /\ pc = "checkstates"
    /\ ctx = "active"
    /\ \E total \in 0..MaxAffected :
          LET page == CheckStatesPage(total, checkStatesLimit, checkStatesOffset)
          IN  /\ responses' = Append(responses, [failed |-> FALSE, value |-> page,
                                                 mon |-> idx, total |-> total])
              /\ AppendMonitorRows(FALSE, page)
    /\ UNCHANGED <<tool, params, ctx, invs, frames, err, query, state, overview, metricVars>>

(***************************************************************************)
(* ListMetrics                                                             *)
(***************************************************************************)
maxMetrics == 50        \* most metrics whose labels are looked up
MaxShortListing == 3    \* longest listing below the cap
MaxOverCap == 2         \* most names of a listing beyond the cap

\* Patterns a caller can send: literals, ".", "*" and parentheses.
ListMetricsParams ==
    [SearchPattern : {"", "cpu", "_", "m.m", "u.*1", "zzz", "cpu(", "*", "a**", "cpu)"}]

\* regexp.Compile, for patterns of literals, ".", "*", "(" and ")": the
\* parse error, "" when the pattern parses.  (Go quotes the offending part of
\* the pattern in backquotes, which a TLA+ string cannot hold: the message
\* here carries the pattern unquoted.)
RECURSIVE ParseErrorFrom(_, _, _, _, _)
ParseErrorFrom(re, i, depth, canRepeat, afterStar) ==
    IF i > Len(re)
    THEN IF depth > 0 THEN "missing closing )" ELSE ""
    ELSE LET c == CharAt(re, i)
         IN  CASE c = "(" -> ParseErrorFrom(re, i + 1, depth + 1, FALSE, FALSE)
               [] c = ")" -> IF depth = 0 THEN "unexpected )"
                             ELSE ParseErrorFrom(re, i + 1, depth - 1, TRUE, FALSE)
               [] c = "*" -> IF afterStar THEN "invalid nested repetition operator"
                             ELSE IF ~canRepeat THEN "missing argument to repetition operator"
                             ELSE ParseErrorFrom(re, i + 1, depth, FALSE, TRUE)
               [] OTHER -> ParseErrorFrom(re, i + 1, depth, TRUE, FALSE)

regexpCompile(pattern) ==
    LET e == ParseErrorFrom(pattern, 1, 0, FALSE, FALSE)
    IN  IF e = "" THEN NilError
        ELSE Errorf("error parsing regexp: " \o e \o ": " \o pattern)

\* re.MatchString for a parsed pattern of literals, "." and "*" after a
\* single character: the pattern matches somewhere in the text.
RECURSIVE MatchHere(_, _)
RECURSIVE MatchStar(_, _, _)
MatchHere(re, text) ==
    IF Len(re) = 0 THEN TRUE
    ELSE IF Len(re) >= 2 /\ CharAt(re, 2) = "*"
    THEN MatchStar(CharAt(re, 1), SubSeq(re, 3, Len(re)), text)
    ELSE IF Len(text) > 0 /\ (CharAt(re, 1) = "." \/ CharAt(re, 1) = CharAt(text, 1))
    THEN MatchHere(StrTail(re), StrTail(text))
    ELSE FALSE
MatchStar(c, re, text) ==
    \/ MatchHere(re, text)
    \/ /\ Len(text) > 0
       /\ (c = "." \/ c = CharAt(text, 1))
       /\ MatchStar(c, re, StrTail(text))

MatchString(re, text) ==
    \E i \in 1..(Len(text) + 1) : MatchHere(re, SubSeq(text, i, Len(text)))

\* The i-th name of the backend's metric listing, and the listings.
MetricNameAt(i) ==
    (IF i % 2 = 1 THEN "cpu_" ELSE "mem_") \o ToString(i)
        \o (CASE i % 3 = 0 -> "_total" [] i % 3 = 1 -> "_sum" [] OTHER -> "_count")

ListingLengths == (0..MaxShortListing) \cup (maxMetrics..(maxMetrics + MaxOverCap))
MetricListings == {[i \in 1..n |-> MetricNameAt(i)] : n \in ListingLengths}

\* The backend's label store: per kind of metric (the last byte of its name),
\* the lookup fails, or returns the label keys.
MetricKinds == {"l", "m", "t"}
LabelAnswers ==
    {[failed |-> TRUE, labels |-> <<>>],
     [failed |-> FALSE, labels |-> <<>>],
     [failed |-> FALSE, labels |-> <<"instance", "job">>]}
LabelStores == [MetricKinds -> LabelAnswers]
NoLabelStore == [k \in MetricKinds |-> [failed |-> TRUE, labels |-> <<>>]]
LabelAnswer(store, metricName) == store[CharAt(metricName, Len(metricName))]

\* The names of the listing the pattern matches, in listing order.
FilterMetrics(metrics, re) == SelectSeq(metrics, LAMBDA m : MatchString(re, m))

\* A variant that looks up the labels of every match.
MetricsToProcess_Uncapped(filtered) == filtered

MetricsToProcess(filtered) ==
    IF Len(filtered) > maxMetrics THEN SubSeq(filtered, 1, maxMetrics) ELSE filtered

Truncated(filtered) == Len(filtered) > maxMetrics

ListHeading(filtered, pattern) ==
    "Found " \o ToString(Len(filtered)) \o " metrics matching '" \o pattern \o "'"
    \o (IF Truncated(filtered) THEN " (showing first " \o ToString(maxMetrics) \o ")" ELSE "")
    \o ":\n\n"
    \o "| Metric Name | Labels |\n"
    \o "|---|---|\n"

\* The labels cell of one metric.
LabelsStr(answer) ==
    IF answer.failed THEN "-"
    ELSE IF Len(answer.labels) > 0 THEN Join(answer.labels, ", ")
    ELSE "-"

TruncationNote(filtered) ==
    IF Truncated(filtered)
    THEN "\n_Note: Showing first " \o ToString(maxMetrics) \o " of " \o ToString(Len(filtered))
         \o " metrics. Use a more specific search pattern to narrow results._\n"
    ELSE ""

LabelsCall(metricName) ==
    [op |-> "GetMetricLabels", args |-> <<metricName, "now-1h", "now">>]

\* ListMetrics from its entry to the listing call or to a validation error.
ListMetricsStart ==
    /\ tool = "ListMetrics"
    /\ pc = "start"
    /\ IF params.SearchPattern = ""
       THEN /\ err' = Errorf("search_pattern is required")
            /\ pc' = "done"
            /\ UNCHANGED calls
       ELSE /\ calls' = Append(calls, [op |-> "ListMetrics", args |-> <<"now-1h", "now">>])
            /\ pc' = "listmetrics"
            /\ UNCHANGED err
    /\ UNCHANGED <<tool, params, ctx, invs, frames, responses, result, query, monitorVars>>

\* The listing call fails.
ListingFails ==
    /\ tool = "ListMetrics"
    /\ pc = "listmetrics"
    /\ \E e \in CallErrors :
          /\ responses' = Append(responses, [failed |-> TRUE, error |-> e])
          /\ err' = Errorf("failed to list metrics: " \o e)
    /\ pc' = "done"
    /\ UNCHANGED <<tool, params, ctx, invs, frames, calls, result, query, monitorVars>>

\* The listing call returns the metric names: the pattern is compiled, the
\* names are filtered, and the loop starts with the first label lookup.
ListingReturns ==
    /\ tool = "ListMetrics"
    /\ pc = "listmetrics"
    /\ ctx = "active"
    /\ \E metrics \in MetricListings :
          LET compiled == regexpCompile(params.SearchPattern)
              filtered == FilterMetrics(metrics, params.SearchPattern)
          IN  /\ responses' = Append(responses, [failed |-> FALSE, value |-> metrics])
              /\ IF ~compiled.IsNil
                 THEN /\ err' = Errorf("invalid regex pattern: " \o compiled.Msg)
                      /\ pc' = "done"
                      /\ UNCHANGED <<calls, result, idx, filteredMetrics, metricsToProcess,
                                     sb, table>>
                 ELSE IF Len(filtered) = 0
                 THEN /\ filteredMetrics' = filtered
                      /\ result' = TextResult("No metrics found matching '"
                                              \o params.SearchPattern \o "'.")
                      /\ pc' = "done"
                      /\ UNCHANGED <<calls, err, idx, metricsToProcess, sb, table>>
                 ELSE /\ filteredMetrics' = filtered
                      /\ metricsToProcess' = MetricsToProcess(filtered)
                      /\ sb' = ListHeading(filtered, params.SearchPattern)
                      /\ table' = [header |-> <<"Metric Name", "Labels">>, rows |-> <<>>]
                      /\ idx' = 1
                      /\ calls' = Append(calls, LabelsCall(MetricsToProcess(filtered)[1]))
                      /\ pc' = "labels"
                      /\ UNCHANGED <<result, err>>
    /\ UNCHANGED <<tool, params, ctx, invs, frames, query, state, overview, rows, rowMonitor, monitorCount,
                   labelStore>>

\* A variant of the loop body that writes no row for a metric whose lookup
\* failed.
LabelsEnds_SkipsFailed(answer) ==
    LET metricName == metricsToProcess[idx]
        line == IF answer.failed THEN ""
                ELSE "| " \o metricName \o " | " \o LabelsStr(answer) \o " |\n"
    IN  /\ table' = IF answer.failed THEN table
                    ELSE [table EXCEPT !.rows = Append(@, <<metricName, LabelsStr(answer)>>)]
        /\ IF idx < Len(metricsToProcess)
           THEN /\ sb' = sb \o line
                /\ idx' = idx + 1
                /\ calls' = Append(calls, LabelsCall(metricsToProcess[idx + 1]))
                /\ UNCHANGED <<pc, result>>
           ELSE /\ sb' = sb \o line \o TruncationNote(filteredMetrics)
                /\ result' = TextResult(sb \o line \o TruncationNote(filteredMetrics))
                /\ pc' = "done"
                /\ UNCHANGED <<idx, calls>>

\* The label lookup of the current metric ends, with the labels or with an
\* error: its row is written, and the loop goes on to the next lookup or to
\* the return.
LabelsEnds(answer) ==
    LET metricName == metricsToProcess[idx]
        line == "| " \o metricName \o " | " \o LabelsStr(answer) \o " |\n"
    IN  /\ table' = [table EXCEPT !.rows = Append(@, <<metricName, LabelsStr(answer)>>)]
        /\ IF idx < Len(metricsToProcess)
           THEN /\ sb' = sb \o line
                /\ idx' = idx + 1
                /\ calls' = Append(calls, LabelsCall(metricsToProcess[idx + 1]))
                /\ UNCHANGED <<pc, result>>
           ELSE /\ sb' = sb \o line \o TruncationNote(filteredMetrics)
                /\ result' = TextResult(sb \o line \o TruncationNote(filteredMetrics))
                /\ pc' = "done"
                /\ UNCHANGED <<idx, calls>>

LabelsFails ==
    /\ tool = "ListMetrics"
    /\ pc = "labels"
    /\ (LabelAnswer(labelStore, metricsToProcess[idx]).failed \/ ctx = "canceled")
    /\ \E e \in CallErrors :
          responses' = Append(responses, [failed |-> TRUE, error |-> e])
    /\ LabelsEnds([failed |-> TRUE, labels |-> <<>>])
    /\ UNCHANGED <<tool, params, ctx, invs, frames, err, query, state, overview, rows, rowMonitor, monitorCount,
                   labelStore, filteredMetrics, metricsToProcess>>

LabelsReturns ==
    /\ tool = "ListMetrics"
    /\ pc = "labels"
    /\ ctx = "active"
    /\ ~LabelAnswer(labelStore, metricsToProcess[idx]).failed
    /\ responses' = Append(responses,
                           [failed |-> FALSE,
                            value |-> LabelAnswer(labelStore, metricsToProcess[idx]).labels])
    /\ LabelsEnds(LabelAnswer(labelStore, metricsToProcess[idx]))
    /\ UNCHANGED <<tool, params, ctx, invs, frames, err, query, state, overview, rows, rowMonitor, monitorCount,
                   labelStore, filteredMetrics, metricsToProcess>>

(***************************************************************************)
(* QueryRangeMetric and formatMetrics                                      *)
(***************************************************************************)
MaxSeries == 2          \* longest range-query response

QueryRangeMetricParams ==
    [Query : {"up"},
     Start : {"now", "1h", "yesterday"},
     End : {"now", "5m", ""},
     Step : {"", "15s"}]

IsDigit(c) == \E d \in 0..9 : ToString(d) = c
DigitOf(c) == CHOOSE d \in 0..9 : ToString(d) = c

RECURSIVE ParseDigits(_, _)
ParseDigits(s, acc) ==
    IF Len(s) = 0 THEN acc
    ELSE ParseDigits(StrTail(s), acc * 10 + DigitOf(CharAt(s, 1)))

\* time.ParseDuration, for durations written as decimal digits and one unit
\* of "s", "m" or "h": the seconds, or a failure.
ParseDuration(s) ==
    LET digits == SubSeq(s, 1, Len(s) - 1)
        unit == CharAt(s, Len(s))
    IN  IF /\ Len(s) >= 2
           /\ \A i \in 1..Len(digits) : IsDigit(CharAt(digits, i))
           /\ unit \in {"s", "m", "h"}
        THEN [ok |-> TRUE,
              seconds |-> ParseDigits(digits, 0)
                          * (CASE unit = "s" -> 1 [] unit = "m" -> 60 [] OTHER -> 3600)]
        ELSE [ok |-> FALSE, seconds |-> 0]

\* parseTime: the time as seconds before now, or the error.
parseTime(s) ==
    IF s = "now" THEN [err |-> NilError, ago |-> 0]
    ELSE IF ParseDuration(s).ok THEN [err |-> NilError, ago |-> ParseDuration(s).seconds]
    ELSE [err |-> Errorf("invalid time format: " \o s
                         \o " (expected 'now' or duration like '1h')"),
          ago |-> 0]

DefaultStep(step) == IF step = "" THEN "1m" ELSE step

\* Bytes in their order, for the bytes label keys are written with.
ByteOrder == "0123456789ABCDEFGHIJKLMNOPQRSTUVWXYZ_abcdefghijklmnopqrstuvwxyz"
Ord(c) == CHOOSE i \in 1..Len(ByteOrder) : CharAt(ByteOrder, i) = c

\* a < b as Go compares strings.
RECURSIVE StrLess(_, _)
StrLess(a, b) ==
    IF Len(b) = 0 THEN FALSE
    ELSE IF Len(a) = 0 THEN TRUE
    ELSE IF CharAt(a, 1) = CharAt(b, 1) THEN StrLess(StrTail(a), StrTail(b))
    ELSE Ord(CharAt(a, 1)) < Ord(CharAt(b, 1))

\* sort.Strings of the elements of a set.
RECURSIVE SortStrings(_)
SortStrings(S) ==
    IF S = {} THEN <<>>
    ELSE LET least == CHOOSE x \in S : \A y \in S : ~StrLess(y, x)
         IN  <<least>> \o SortStrings(S \ {least})

\* The series the backend can answer with.  A point's value is held in
\* ten-thousandths, its timestamp in seconds since the epoch.
MetricResults ==
    {[Labels |-> ("__name__" :> "up") @@ ("job" :> "api") @@ ("instance" :> "a1"),
      Points |-> <<[Timestamp |-> 0, Value |-> 10000], [Timestamp |-> 60, Value |-> 0]>>],
     [Labels |-> ("job" :> "db") @@ ("Zone" :> "eu"),
      Points |-> <<[Timestamp |-> 90061, Value |-> 123456]>>],
     [Labels |-> ("job" :> "") @@ ("pod" :> "p1"),
      Points |-> <<[Timestamp |-> 30, Value |-> -5000]>>],
     [Labels |-> [k \in {} |-> ""],
      Points |-> <<>>]}

RangeResponses == SeqsUpTo(MetricResults, MaxSeries)

\* A collection of the label keys that keeps "__name__".
labelKeys_KeepsName(metricsResult) ==
    UNION {DOMAIN metricsResult[i].Labels : i \in 1..Len(metricsResult)}

\* The unique label keys across all series.
labelKeys(metricsResult) ==
    UNION {DOMAIN metricsResult[i].Labels \ {"__name__"} : i \in 1..Len(metricsResult)}

sortedKeys(metricsResult) == SortStrings(labelKeys(metricsResult))

\* res.Labels[k] of a Go map: the zero value for a key the map does not hold.
LabelOf(labels, k) == IF k \in DOMAIN labels THEN labels[k] ELSE ""

LabelCell(labels, k) == IF LabelOf(labels, k) = "" THEN "-" ELSE LabelOf(labels, k)

Pad(n, width) ==
    LET digits == ToString(n)
    IN  IF Len(digits) >= width THEN digits
        ELSE SubSeq("0000", 1, width - Len(digits)) \o digits

\* time.Unix(ts, 0).Format(time.RFC3339), for a timestamp of January 1970
\* and the UTC zone.
FormatRFC3339(ts) ==
    "1970-01-" \o Pad((ts \div 86400) + 1, 2) \o "T" \o Pad((ts % 86400) \div 3600, 2)
    \o ":" \o Pad((ts % 3600) \div 60, 2) \o ":" \o Pad(ts % 60, 2) \o "Z"

\* fmt.Sprintf("%.4f", v) of a value held in ten-thousandths.
FormatFloat4(v) ==
    LET abs == IF v < 0 THEN 0 - v ELSE v
    IN  (IF v < 0 THEN "-" ELSE "") \o ToString(abs \div 10000) \o "." \o Pad(abs % 10000, 4)

\* The cells of the row of one point of one series.
PointRow(res, p, keys) ==
    <<FormatRFC3339(p.Timestamp), FormatFloat4(p.Value)>>
    \o [i \in 1..Len(keys) |-> LabelCell(res.Labels, keys[i])]

\* A variant that writes the rows of the last series first.
RECURSIVE DataRows_LastSeriesFirst(_, _)
DataRows_LastSeriesFirst(metricsResult, keys) ==
    IF Len(metricsResult) = 0 THEN <<>>
    ELSE DataRows_LastSeriesFirst(Tail(metricsResult), keys)
         \o [i \in 1..Len(metricsResult[1].Points) |->
                PointRow(metricsResult[1], metricsResult[1].Points[i], keys)]

\* The data rows: the series in their order, the points of each in theirs.
RECURSIVE DataRows(_, _)
DataRows(metricsResult, keys) ==
    IF Len(metricsResult) = 0 THEN <<>>
    ELSE [i \in 1..Len(metricsResult[1].Points) |->
             PointRow(metricsResult[1], metricsResult[1].Points[i], keys)]
         \o DataRows(Tail(metricsResult), keys)

\* The header and the rows formatMetrics writes.
formatMetricsTable(metricsResult) ==
    IF Len(metricsResult) = 0 THEN EmptyTable
    ELSE [header |-> <<"Timestamp", "Value">> \o sortedKeys(metricsResult),
          rows |-> DataRows(metricsResult, sortedKeys(metricsResult))]

RECURSIVE RenderCells(_)
RenderCells(cells) ==
    IF Len(cells) = 0 THEN "" ELSE " " \o cells[1] \o " |" \o RenderCells(Tail(cells))

RECURSIVE RenderRows(_)
RenderRows(rs) ==
    IF Len(rs) = 0 THEN "" ELSE "|" \o RenderCells(rs[1]) \o "\n" \o RenderRows(Tail(rs))

RECURSIVE Separator(_)
Separator(n) == IF n = 0 THEN "" ELSE "---|" \o Separator(n - 1)

formatMetrics(metricsResult, queryName) ==
    IF Len(metricsResult) = 0 THEN "No data found."
    ELSE LET t == formatMetricsTable(metricsResult)
         IN  "|" \o RenderCells(t.header) \o "\n"
             \o "|" \o Separator(Len(t.header)) \o "\n"
             \o RenderRows(t.rows)

\* QueryRangeMetric from its entry to the range query or to a parse error.
QueryRangeStart ==
    /\ tool = "QueryRangeMetric"
    /\ pc = "start"
    /\ LET start == parseTime(params.Start)
           end == parseTime(params.End)
       IN  IF ~start.err.IsNil
           THEN /\ err' = Errorf("failed to parse start time: " \o start.err.Msg)
                /\ pc' = "done"
                /\ UNCHANGED calls
           ELSE IF ~end.err.IsNil
           THEN /\ err' = Errorf("failed to parse end time: " \o end.err.Msg)
                /\ pc' = "done"
                /\ UNCHANGED calls
           ELSE /\ calls' = Append(calls, [op |-> "QueryRangeMetric",
                                           args |-> <<params.Query, start.ago, end.ago,
                                                      DefaultStep(params.Step), "30s">>])
                /\ pc' = "queryrange"
                /\ UNCHANGED err
    /\ UNCHANGED <<tool, params, ctx, invs, frames, responses, result, query, monitorVars>>

\* The range query fails.
QueryRangeFails ==
    /\ tool = "QueryRangeMetric"
    /\ pc = "queryrange"
    /\ \E e \in CallErrors :
          /\ responses' = Append(responses, [failed |-> TRUE, error |-> e])
          /\ err' = Errorf("failed to query range metri c: " \o e)
    /\ pc' = "done"
    /\ UNCHANGED <<tool, params, ctx, invs, frames, calls, result, query, monitorVars>>

\* The range query returns the series, which formatMetrics renders.
QueryRangeReturns ==
    /\ tool = "QueryRangeMetric"
    /\ pc = "queryrange"
    /\ ctx = "active"
    /\ \E series \in RangeResponses :
          /\ responses' = Append(responses, [failed |-> FALSE, value |-> series])
          /\ table' = formatMetricsTable(series)
          /\ result' = TextResult(formatMetrics(series, params.Query))
    /\ pc' = "done"
    /\ UNCHANGED <<tool, params, ctx, invs, frames, calls, err, query, state, overview, idx, rows, rowMonitor,
                   monitorCount, labelStore, filteredMetrics, metricsToProcess, sb>>

InitLocals ==
    /\ pc = "start"
    /\ ctx = "active"
    /\ invs = <<>>
    /\ frames = <<>>
    /\ calls = <<>>
    /\ responses = <<>>
    /\ result = NilResult
    /\ err = NilError
    /\ query = ""
    /\ state = ""
    /\ overview = <<>>
    /\ idx = 0
    /\ rows = <<>>
    /\ rowMonitor = <<>>
    /\ monitorCount = 0
    /\ filteredMetrics = <<>>
    /\ metricsToProcess = <<>>
    /\ sb = ""
    /\ table = EmptyTable

InitComponents ==
    /\ tool = "GetComponents"
    /\ params \in GetComponentsParams
    /\ labelStore = NoLabelStore
    /\ InitLocals

NextComponents ==
    \/ GetComponentsStart
    \/ TopologyFails
    \/ TopologyReturns

SpecComponents == InitComponents /\ [][NextComponents]_vars

InitMonitors ==
    /\ tool = "GetMonitors"
    /\ params \in GetMonitorsParams
    /\ labelStore = NoLabelStore
    /\ InitLocals

NextMonitors ==
    \/ GetMonitorsStart
    \/ OverviewFails
    \/ OverviewReturns
    \/ CheckStatesFails
    \/ CheckStatesReturns

SpecMonitors == InitMonitors /\ [][NextMonitors]_vars

InitList ==
    /\ tool = "ListMetrics"
    /\ params \in ListMetricsParams
    /\ labelStore \in LabelStores
    /\ InitLocals

NextList ==
    \/ ListMetricsStart
    \/ ListingFails
    \/ ListingReturns
    \/ LabelsFails
    \/ LabelsReturns

SpecList == InitList /\ [][NextList]_vars

InitRange ==
    /\ tool = "QueryRangeMetric"
    /\ params \in QueryRangeMetricParams
    /\ labelStore = NoLabelStore
    /\ InitLocals

NextRange ==
    \/ QueryRangeStart
    \/ QueryRangeFails
    \/ QueryRangeReturns

SpecRange == InitRange /\ [][NextRange]_vars

Init == InitComponents \/ InitMonitors \/ InitList \/ InitRange

Next == NextComponents \/ NextMonitors \/ NextList \/ NextRange

Spec == Init /\ [][Next]_vars

\* The request context is canceled while a backend call is in flight.
CancelContext ==
    /\ pc \notin {"start", "done"}
    /\ ctx = "active"
    /\ ctx' = "canceled"
    /\ UNCHANGED <<tool, params, invs, frames, pc, calls, responses, result, err, query,
                   monitorVars>>

\* The invocations with a caller that may cancel the request.
NextCancel == Next \/ CancelContext

SpecCancel == Init /\ [][NextCancel]_vars

(***************************************************************************)
(* Concurrent invocations of GetMonitors on one tool object.  The server   *)
(* runs every request through the same tool value; each call of the        *)
(* handler has its receiver copy and its locals in a stack frame of its    *)
(* own.                                                                    *)
(***************************************************************************)
Invocations == {1, 2}

\* What the callers and the backend do in the concurrent runs.
ConcurrentParams == [State : {"", "DEVIATING", "CLEAR"}]
ConcurrentOverviews == {ov \in MonitorOverviews : Len(ov) = 2}
ConcurrentTotals == {0, 1, 6}

\* A variant in which the locals of all invocations live in one place, as
\* fields of the shared tool object would.
Frame_Shared(i) == 1

\* The stack frame of invocation i.
Frame(i) == i

NewInvocation(p) ==
    [params |-> p, pc |-> "start", calls |-> <<>>, responses |-> <<>>,
     result |-> NilResult, err |-> NilError]

NoLocals == [state |-> "", overview |-> <<>>, idx |-> 0, rows |-> <<>>, monitorCount |-> 0]

CheckStatesCall(monitor, st) ==
    [op |-> "GetMonitorCheckStates",
     args |-> <<ToString(monitor.Id), st, checkStatesLimit, checkStatesOffset>>]

\* Invocation i, after the response `resp` to its call in flight, runs the
\* loop from position `from` with the rows `rs` to its next check-state call
\* or to its return.
ConcurrentContinue(i, resp, from, rs) ==
    LET locals == frames[Frame(i)]
        next == NextMonitor(locals.overview, from, locals.state)
    IN  /\ frames' = [frames EXCEPT ![Frame(i)] =
                         [locals EXCEPT !.idx = next,
                                        !.rows = rs,
                                        !.monitorCount =
                                            IF next <= Len(locals.overview) THEN @
                                            ELSE CountMonitors(rs, {})]]
        /\ invs' = [invs EXCEPT ![i] =
                       IF next <= Len(locals.overview)
                       THEN [@ EXCEPT !.responses = Append(@, resp),
                                      !.calls = Append(@, CheckStatesCall(
                                                    locals.overview[next].Monitor,
                                                    locals.state))]
                       ELSE [@ EXCEPT !.responses = Append(@, resp),
                                      !.result = TextResult(MonitorsOutput(rs, locals.state)),
                                      !.pc = "done"]]

ConcurrentStart(i) ==
    /\ invs[i].pc = "start"
    /\ LET st == DefaultState(invs[i].params.State)
       IN  /\ frames' = [frames EXCEPT ![Frame(i)].state = st]
           /\ invs' = [invs EXCEPT ![i] =
                          IF st \in validStates
                          THEN [@ EXCEPT !.calls = Append(@, [op |-> "GetMonitorsOverview",
                                                              args |-> <<>>]),
                                         !.pc = "overview"]
                          ELSE [@ EXCEPT !.err = Errorf("invalid state '" \o st
                                             \o "'. Allowed values: CRITICAL, DEVIATING, UNKNOWN"),
                                         !.pc = "done"]]
    /\ UNCHANGED handlerVars

ConcurrentOverviewFails(i) ==
    /\ invs[i].pc = "overview"
    /\ \E e \in BackendErrors :
          invs' = [invs EXCEPT ![i] =
                      [@ EXCEPT !.responses = Append(@, [failed |-> TRUE, error |-> e]),
                                !.err = Errorf("failed to get monitors overview: " \o e),
                                !.pc = "done"]]
    /\ UNCHANGED <<frames, handlerVars>>

\* The overview arrives: it becomes the frame's `overview`, and the loop
\* starts over the frame's locals.
ConcurrentOverviewReturns(i) ==
    /\ invs[i].pc = "overview"
    /\ \E ov \in ConcurrentOverviews :
          LET locals == frames[Frame(i)]
              next == NextMonitor(ov, 1, locals.state)
          IN  /\ frames' = [frames EXCEPT ![Frame(i)] =
                               [locals EXCEPT !.overview = ov,
                                              !.idx = next,
                                              !.monitorCount =
                                                  IF next <= Len(ov) THEN @
                                                  ELSE CountMonitors(locals.rows, {})]]
              /\ invs' = [invs EXCEPT ![i] =
                             IF next <= Len(ov)
                             THEN [@ EXCEPT !.responses = Append(@, [failed |-> FALSE,
                                                                     value |-> ov]),
                                            !.calls = Append(@, CheckStatesCall(
                                                          ov[next].Monitor, locals.state)),
                                            !.pc = "checkstates"]
                             ELSE [@ EXCEPT !.responses = Append(@, [failed |-> FALSE,
                                                                     value |-> ov]),
                                            !.result = TextResult(MonitorsOutput(locals.rows,
                                                                                 locals.state)),
                                            !.pc = "done"]]
    /\ UNCHANGED handlerVars

\* The rows the frame holds after the iteration of its current monitor.
ConcurrentRows(i, failed, states) ==
    LET locals == frames[Frame(i)]
        monitor == locals.overview[locals.idx].Monitor
        count == CountFor(locals.overview[locals.idx].RuntimeMetrics, locals.state)
    IN  locals.rows \o MonitorRows(monitor, count, failed, states)

ConcurrentCheckStatesFails(i) ==
    /\ invs[i].pc = "checkstates"
    /\ \E e \in BackendErrors :
          ConcurrentContinue(i, [failed |-> TRUE, error |-> e],
                             frames[Frame(i)].idx + 1, ConcurrentRows(i, TRUE, <<>>))
    /\ UNCHANGED handlerVars

ConcurrentCheckStatesReturns(i) ==
    /\ invs[i].pc = "checkstates"
    /\ \E total \in ConcurrentTotals :
          LET page == CheckStatesPage(total, checkStatesLimit, checkStatesOffset)
          IN  ConcurrentContinue(i, [failed |-> FALSE, value |-> page],
                                 frames[Frame(i)].idx + 1, ConcurrentRows(i, FALSE, page))
    /\ UNCHANGED handlerVars

InitConcurrent ==
    /\ tool = "GetMonitors"
    /\ params = [State |-> ""]
    /\ labelStore = NoLabelStore
    /\ pc = "start"
    /\ ctx = "active"
    /\ calls = <<>>
    /\ responses = <<>>
    /\ result = NilResult
    /\ err = NilError
    /\ query = ""
    /\ state = ""
    /\ overview = <<>>
    /\ idx = 0
    /\ rows = <<>>
    /\ rowMonitor = <<>>
    /\ monitorCount = 0
    /\ filteredMetrics = <<>>
    /\ metricsToProcess = <<>>
    /\ sb = ""
    /\ table = EmptyTable
    /\ invs \in [Invocations -> {NewInvocation(p) : p \in ConcurrentParams}]
    /\ frames = [f \in Invocations |-> NoLocals]

NextConcurrent ==
    \E i \in Invocations :
        \/ ConcurrentStart(i)
        \/ ConcurrentOverviewFails(i)
        \/ ConcurrentOverviewReturns(i)
        \/ ConcurrentCheckStatesFails(i)
        \/ ConcurrentCheckStatesReturns(i)

SpecConcurrent == InitConcurrent /\ [][NextConcurrent]_vars

(***************************************************************************)
(* Properties of GetComponents                                             *)
(***************************************************************************)
TopologyCall(q) == [op |-> "SnapShotTopologyQuery", args |-> <<q>>]

\* The named filters in the order name, type, layer, domain, healthstate.
NamedFilters(p) ==
    <<<<"name", p.NamePattern>>, <<"type", p.Type>>, <<"layer", p.Layer>>,
      <<"domain", p.Domain>>, <<"healthstate", p.HealthState>>>>

\* The " AND "-join of one clause per non-empty filter.
RECURSIVE AndJoin(_)
AndJoin(filters) ==
    IF Len(filters) = 0 THEN ""
    ELSE LET rest == AndJoin(Tail(filters))
             clause == filters[1][1] \o " = \"" \o filters[1][2] \o "\""
         IN  IF filters[1][2] = "" THEN rest
             ELSE IF rest = "" THEN clause
             ELSE clause \o " AND " \o rest

AllFiltersEmpty(p) == \A i \in 1..5 : NamedFilters(p)[i][2] = ""

\* s holds sub as a substring.
Contains(s, sub) ==
    \E i \in 1..(Len(s) + 1) : i + Len(sub) - 1 <= Len(s) /\ SubSeq(s, i, i + Len(sub) - 1) = sub

\* C1: once GetComponents has run with a non-empty raw query, the one query
\* passed to the topology call is the raw query exactly, whatever the named
\* filters and the neighbor parameters hold.
C1_RawQueryVerbatim ==
    (tool = "GetComponents" /\ params.Query # "" /\ pc # "start") =>
        /\ query = params.Query
        /\ calls = <<TopologyCall(params.Query)>>

C1_Witness ==
    /\ tool = "GetComponents"
    /\ pc = "topology"
    /\ params.Query # ""
    /\ params.NamePattern # ""
    /\ params.HealthState # ""
    /\ params.WithNeighbors
    /\ calls = <<TopologyCall(params.Query)>>

\* C2: with an empty raw query and with_neighbors false, the built query is
\* the " AND "-join of the clauses field = "value" of exactly the non-empty
\* named filters, in the order name, type, layer, domain, healthstate; it is
\* empty exactly when all five are empty, and otherwise it is the query
\* passed to the topology call.
C2_AndJoinOfNamedFilters ==
    (tool = "GetComponents" /\ params.Query = "" /\ ~params.WithNeighbors /\ pc # "start") =>
        /\ query = AndJoin(NamedFilters(params))
        /\ (query = "" <=> AllFiltersEmpty(params))
        /\ (query # "" => calls = <<TopologyCall(query)>>)

C2_Witness ==
    /\ tool = "GetComponents"
    /\ pc = "topology"
    /\ params.Query = ""
    /\ ~params.WithNeighbors
    /\ params.NamePattern = "a\"b"
    /\ params.Type = ""
    /\ params.Layer # ""
    /\ params.HealthState # ""
    /\ calls = <<TopologyCall("name = \"a\"b\" AND layer = \"Services\" AND healthstate = \"CRITICAL\"")>>

\* C3: with an empty raw query, with_neighbors true and a non-empty base B,
\* levels L defaulting to "1" and direction D defaulting to "both": when D is
\* up, down or both the executed query is
\* B OR withNeighborsOf(components = (B), levels = "L", direction = "D");
\* for any other D the call ends with an error naming D.
C3_NeighborRewrite ==
    (/\ tool = "GetComponents"
     /\ params.Query = ""
     /\ params.WithNeighbors
     /\ ~AllFiltersEmpty(params)
     /\ pc # "start") =>
        LET B == AndJoin(NamedFilters(params))
            L == IF params.WithNeighborsLevels = "" THEN "1" ELSE params.WithNeighborsLevels
            D == IF params.WithNeighborsDirection = "" THEN "both"
                 ELSE params.WithNeighborsDirection
        IN  IF D \in {"up", "down", "both"}
            THEN /\ calls = <<TopologyCall(B \o " OR withNeighborsOf(components = (" \o B
                                             \o "), levels = \"" \o L \o "\", direction = \""
                                             \o D \o "\")")>>
                 /\ (pc = "topology" => err.IsNil)
            ELSE /\ pc = "done"
                 /\ ~err.IsNil
                 /\ Contains(err.Msg, "'" \o D \o "'")
                 /\ result.IsNil
                 /\ calls = <<>>

C3_Witness ==
    /\ tool = "GetComponents"
    /\ pc = "topology"
    /\ params.Query = ""
    /\ params.NamePattern = "redis*"
    /\ params.WithNeighbors
    /\ params.WithNeighborsLevels = ""
    /\ params.WithNeighborsDirection = "down"
    /\ calls = <<TopologyCall("name = \"redis*\" OR withNeighborsOf(components = (name = \"redis*\"), levels = \"1\", direction = \"down\")")>>

(***************************************************************************)
(* Properties of GetMonitors                                               *)
(***************************************************************************)
\* The counter of the requested state of the monitor at position i.
TargetCounter(i) ==
    IF state = "CRITICAL" THEN overview[i].RuntimeMetrics.CriticalCount
    ELSE IF state = "DEVIATING" THEN overview[i].RuntimeMetrics.DeviatingCount
    ELSE overview[i].RuntimeMetrics.UnknownCount

\* The rows emitted for the monitor at position m, in their order.
RowsOfMonitor(m) ==
    LET at == {i \in 1..Len(rows) : rowMonitor[i] = m}
    IN  IF at = {} THEN <<>>
        ELSE LET first == CHOOSE i \in at : \A j \in at : i <= j
             IN  [k \in 1..Cardinality(at) |-> rows[first + k - 1]]

\* The check-state lookups answered so far.
Lookups == {k \in 1..Len(responses) : calls[k].op = "GetMonitorCheckStates"}

EntityRef(checkState) ==
    checkState.Name \o " ("
    \o (IF checkState.TopologyElementIdType = "identifier" THEN "URN:" ELSE "ID:")
    \o ToString(checkState.TopologyElementId) \o ")"

\* C4: for every monitor whose lookup returned n >= 1 entries, min(n, 5)
\* detail rows are emitted in lookup order, and exactly one continuation row
\* with description "-" and "... and k more" follows exactly when the
\* monitor's true number of affected entities exceeds 5, k being that number
\* minus 5.
C4_ContinuationCountsAllAffected ==
    tool = "GetMonitors" =>
        \A k \in Lookups :
            (~responses[k].failed /\ Len(responses[k].value) >= 1) =>
                LET page == responses[k].value
                    total == responses[k].total
                    shown == IF Len(page) < 5 THEN Len(page) ELSE 5
                    R == RowsOfMonitor(responses[k].mon)
                IN  /\ Len(R) = shown + (IF total > 5 THEN 1 ELSE 0)
                    /\ \A i \in 1..shown : R[i].AffectedComponent = EntityRef(page[i])
                    /\ total > 5 =>
                          /\ R[shown + 1].Description = "-"
                          /\ R[shown + 1].AffectedComponent
                                = "... and " \o ToString(total - 5) \o " more"

\* The monitors of the overview the loop does not skip, and their names.
Qualifying == {i \in 1..Len(overview) : TargetCounter(i) # 0}
QualifyingNames == {overview[i].Monitor.Name : i \in Qualifying}
RenderedNames == {rows[i].Name : i \in 1..Len(rows)}
OverviewReturned == Len(responses) >= 1 /\ ~responses[1].failed

\* C5 as claimed: the number of distinct monitor names rendered, the N of
\* the summary line, is the number of monitors whose counter of the target
\* state is strictly positive.
C5_CountIsNumberOfPositiveMonitors ==
    (tool = "GetMonitors" /\ pc = "done" /\ OverviewReturned) =>
        LET positive == {i \in 1..Len(overview) : TargetCounter(i) > 0}
        IN  /\ Cardinality(RenderedNames) = Cardinality(positive)
            /\ monitorCount = Cardinality(positive)

\* C5 as amended: the N of the summary line is the number of distinct names
\* among the monitors whose counter of the target state is not zero, which
\* is the number of distinct names rendered; it is the number of those
\* monitors when their names are pairwise distinct.
C5_CountIsNumberOfDistinctNames ==
    (tool = "GetMonitors" /\ pc = "done" /\ OverviewReturned) =>
        /\ RenderedNames = QualifyingNames
        /\ monitorCount = Cardinality(QualifyingNames)
        /\ (Cardinality(QualifyingNames) = Cardinality(Qualifying)
               => monitorCount = Cardinality(Qualifying))
        /\ (Qualifying # {} =>
               LET heading == "Found " \o ToString(Cardinality(QualifyingNames))
                              \o " monitor(s) in " \o state \o " state:\n"
               IN  SubSeq(result.Text, 1, Len(heading)) = heading)

C5_Witness ==
    /\ tool = "GetMonitors"
    /\ pc = "done"
    /\ OverviewReturned
    /\ Cardinality(Qualifying) = 2
    /\ Cardinality(QualifyingNames) = 1
    /\ Len(rows) > 2
    /\ monitorCount = 1

\* C6: a qualifying monitor whose lookup fails or returns no entries gets
\* exactly one row, with affected component "-"; the monitors after it are
\* still looked up, and the invocation returns a result and no error.
C6_LookupFailureDegrades ==
    tool = "GetMonitors" =>
        /\ \A k \in Lookups :
              (IF responses[k].failed THEN TRUE ELSE Len(responses[k].value) = 0) =>
                  LET m == responses[k].mon
                  IN  RowsOfMonitor(m)
                         = <<[Name |-> overview[m].Monitor.Name,
                              Description |-> overview[m].Monitor.Description,
                              AffectedCount |-> TargetCounter(m),
                              AffectedComponent |-> "-"]>>
        /\ (pc = "done" /\ OverviewReturned) =>
              /\ err.IsNil
              /\ ~result.IsNil
              /\ {responses[k].mon : k \in Lookups} = Qualifying
              /\ Cardinality(Lookups) = Cardinality(Qualifying)

C6_Witness ==
    /\ tool = "GetMonitors"
    /\ pc = "done"
    /\ Len(responses) = 3
    /\ responses[2].failed
    /\ ~responses[3].failed
    /\ Len(responses[3].value) > 0
    /\ Len(RowsOfMonitor(1)) = 1
    /\ Len(RowsOfMonitor(2)) > 1
    /\ err.IsNil
    /\ ~result.IsNil

(***************************************************************************)
(* Properties of formatMetrics and of the empty results                    *)
(***************************************************************************)
\* For each data row of the series, in row order, the position of its series.
RECURSIVE RowOwnersFrom(_, _)
RowOwnersFrom(series, i) ==
    IF i > Len(series) THEN <<>>
    ELSE [j \in 1..Len(series[i].Points) |-> i] \o RowOwnersFrom(series, i + 1)

\* cols lists, sorted and without repetition, the label keys of the series
\* other than "__name__".
IsSortedUnionOfKeys(cols, series) ==
    /\ {cols[c] : c \in 1..Len(cols)}
          = UNION {DOMAIN series[i].Labels : i \in 1..Len(series)} \ {"__name__"}
    /\ \A c \in 1..(Len(cols) - 1) : StrLess(cols[c], cols[c + 1])

RangeAnswered ==
    tool = "QueryRangeMetric" /\ pc = "done" /\ Len(responses) = 1 /\ ~responses[1].failed

\* C7 as claimed: for a non-empty sequence of series the label columns are
\* the sorted union of the label keys without "__name__", and the cell of a
\* key is "-" when the row's series does not carry the key, and the series'
\* value for the key otherwise.
C7_CellIsValueOfEveryCarriedKey ==
    (RangeAnswered /\ Len(responses[1].value) >= 1) =>
        LET series == responses[1].value
            cols == SubSeq(table.header, 3, Len(table.header))
            owners == RowOwnersFrom(series, 1)
        IN  /\ IsSortedUnionOfKeys(cols, series)
            /\ Len(table.rows) = Len(owners)
            /\ \A r \in 1..Len(table.rows) : \A c \in 1..Len(cols) :
                  table.rows[r][c + 2]
                     = IF cols[c] \notin DOMAIN series[owners[r]].Labels THEN "-"
                       ELSE series[owners[r]].Labels[cols[c]]

\* C7 as amended: the label columns are the sorted union of the label keys
\* without "__name__", and the cell of a key is "-" when the row's series
\* does not carry the key or carries it with an empty value, and the series'
\* value for the key otherwise.
C7_CellIsValueOfEveryNonEmptyKey ==
    (RangeAnswered /\ Len(responses[1].value) >= 1) =>
        LET series == responses[1].value
            cols == SubSeq(table.header, 3, Len(table.header))
            owners == RowOwnersFrom(series, 1)
        IN  /\ SubSeq(table.header, 1, 2) = <<"Timestamp", "Value">>
            /\ IsSortedUnionOfKeys(cols, series)
            /\ Len(table.rows) = Len(owners)
            /\ \A r \in 1..Len(table.rows) : \A c \in 1..Len(cols) :
                  table.rows[r][c + 2]
                     = IF cols[c] \notin DOMAIN series[owners[r]].Labels THEN "-"
                       ELSE IF series[owners[r]].Labels[cols[c]] = "" THEN "-"
                       ELSE series[owners[r]].Labels[cols[c]]

C7_Witness ==
    /\ RangeAnswered
    /\ Len(responses[1].value) = 2
    /\ "__name__" \in DOMAIN responses[1].value[1].Labels
    /\ "job" \in DOMAIN responses[1].value[2].Labels
    /\ responses[1].value[2].Labels["job"] = ""
    /\ table.header = <<"Timestamp", "Value", "instance", "job", "pod">>
    /\ Len(table.rows) = 3
    /\ table.rows[1][5] = "-"
    /\ table.rows[3][4] = "-"

TopologyAnsweredEmpty ==
    /\ tool = "GetComponents"
    /\ pc = "done"
    /\ Len(responses) = 1
    /\ ~responses[1].failed
    /\ Len(responses[1].value) = 0

\* C8 as claimed: an empty primary result is no error: getComponents with no
\* matching entity returns "no components found for query: <query>" with the
\* query that was executed, and getMetrics with no series returns
\* "no data found" verbatim.
C8_EmptyResultTextsAsClaimed ==
    /\ TopologyAnsweredEmpty =>
          /\ err.IsNil
          /\ result = TextResult("no components found for query: " \o calls[1].args[1])
    /\ (RangeAnswered /\ Len(responses[1].value) = 0) =>
          /\ err.IsNil
          /\ result = TextResult("no data found")

\* C8 as amended: an empty primary result is no error: getComponents with no
\* matching entity returns "No components found for query: <query>" with the
\* query that was executed, and getMetrics with no series returns
\* "No data found." and writes no table.
C8_EmptyResultTexts ==
    /\ TopologyAnsweredEmpty =>
          /\ err.IsNil
          /\ result = TextResult("No components found for query: " \o calls[1].args[1])
    /\ (RangeAnswered /\ Len(responses[1].value) = 0) =>
          /\ err.IsNil
          /\ result = TextResult("No data found.")
          /\ table = EmptyTable

C8_Witness ==
    /\ TopologyAnsweredEmpty
    /\ params.Query = ""
    /\ params.WithNeighbors
    /\ err.IsNil
    /\ result.Text = "No components found for query: type = \"pod\" OR withNeighborsOf(components = (type = \"pod\"), levels = \"all\", direction = \"up\")"

(***************************************************************************)
(* Properties of validation                                                *)
(***************************************************************************)
\* C9: when search_pattern does not parse as a regular expression,
\* ListMetrics ends with an error and has attempted no backend call.
C9_NoBackendCallOnBadPattern ==
    (tool = "ListMetrics" /\ pc # "start" /\ ~regexpCompile(params.SearchPattern).IsNil) =>
        /\ calls = <<>>
        /\ pc = "done"
        /\ ~err.IsNil
        /\ result.IsNil

ComponentsInvalid ==
    /\ tool = "GetComponents"
    /\ params.Query = ""
    /\ \/ AllFiltersEmpty(params)
       \/ /\ params.WithNeighbors
          /\ params.WithNeighborsDirection \notin {"", "up", "down", "both"}

MonitorsInvalid ==
    /\ tool = "GetMonitors"
    /\ params.State \notin {"", "CRITICAL", "DEVIATING", "UNKNOWN"}

\* C10: every validation failure of GetComponents (no raw query and no named
\* filter, with or without with_neighbors; a direction outside up, down,
\* both) and of GetMonitors (a state outside CRITICAL, DEVIATING, UNKNOWN)
\* ends the invocation with an error, no result and no backend call; an
\* empty state is CRITICAL and is no failure.
C10_ValidationFailureMakesNoCall ==
    /\ (pc # "start" /\ (ComponentsInvalid \/ MonitorsInvalid)) =>
          /\ pc = "done"
          /\ ~err.IsNil
          /\ result.IsNil
          /\ calls = <<>>
    /\ (tool = "GetMonitors" /\ pc # "start" /\ params.State = "") =>
          /\ state = "CRITICAL"
          /\ Len(calls) >= 1
          /\ calls[1].op = "GetMonitorsOverview"

C10_Witness ==
    /\ tool = "GetComponents"
    /\ pc = "done"
    /\ params.Query = ""
    /\ params.NamePattern # ""
    /\ params.WithNeighbors
    /\ params.WithNeighborsDirection = "sideways"
    /\ ~err.IsNil
    /\ calls = <<>>

(***************************************************************************)
(* Properties of ListMetrics                                               *)
(***************************************************************************)
\* The listing call returned and the pattern compiled.
ListingAnswered ==
    /\ tool = "ListMetrics"
    /\ Len(responses) >= 1
    /\ ~responses[1].failed
    /\ regexpCompile(params.SearchPattern).IsNil

\* The names of the returned listing that the pattern matches, in listing
\* order.
RECURSIVE MatchesFrom(_, _, _)
MatchesFrom(listing, pattern, i) ==
    IF i > Len(listing) THEN <<>>
    ELSE (IF MatchString(pattern, listing[i]) THEN <<listing[i]>> ELSE <<>>)
         \o MatchesFrom(listing, pattern, i + 1)

Matches == MatchesFrom(responses[1].value, params.SearchPattern, 1)

\* The label lookups issued so far, in the order they were issued.
LabelLookupCalls == SubSeq(calls, 2, Len(calls))

StartsWith(s, prefix) == Len(s) >= Len(prefix) /\ SubSeq(s, 1, Len(prefix)) = prefix

\* C11: when m names of the listing match the pattern, the label lookups are
\* issued for the first min(m, 50) matches, in listing order and never for
\* more than 50; the summary reports m as the total; and the truncation
\* notice is in the result exactly when m exceeds 50.
C11_LookupsCappedAtFifty ==
    ListingAnswered =>
        LET matches == Matches
            m == Len(matches)
            cap == IF m < 50 THEN m ELSE 50
            n == Len(LabelLookupCalls)
        IN  /\ n <= cap
            /\ LabelLookupCalls = [k \in 1..n |-> LabelsCall(SubSeq(matches, 1, n)[k])]
            /\ (pc = "done" /\ m > 0) =>
                  /\ n = cap
                  /\ StartsWith(result.Text, "Found " \o ToString(m) \o " metrics matching '")
                  /\ (m > 50) <=> Contains(result.Text,
                                           "_Note: Showing first 50 of " \o ToString(m)
                                           \o " metrics.")

\* A listing with more than 50 matches was rendered.
C11_Witness ==
    /\ ListingAnswered
    /\ pc = "done"
    /\ Len(Matches) > 50
    /\ Len(LabelLookupCalls) = 50

(***************************************************************************)
(* Properties of backend failures                                          *)
(***************************************************************************)
\* The first backend call of the invocation (the topology query, the monitor
\* overview, the metric-name listing or the range query) ended in an error.
PrimaryCallFailed == Len(responses) >= 1 /\ responses[1].failed

PrimaryOps ==
    {"SnapShotTopologyQuery", "GetMonitorsOverview", "ListMetrics", "QueryRangeMetric"}

\* C12: in every tool, when the primary backend call fails, the invocation
\* has ended with an error and without a result, and the failed call is the
\* only backend call it made: it is not retried and nothing is called after
\* it.
C12_PrimaryFailureEndsInvocation ==
    PrimaryCallFailed =>
        /\ pc = "done"
        /\ ~err.IsNil
        /\ result.IsNil
        /\ Len(calls) = 1
        /\ calls[1].op \in PrimaryOps
        /\ Len(responses) = 1

\* The monitor overview failed.
C12_Witness ==
    /\ tool = "GetMonitors"
    /\ PrimaryCallFailed
    /\ calls[1].op = "GetMonitorsOverview"
    /\ Contains(err.Msg, "connection refused")

(***************************************************************************)
(* Properties of cancellation                                              *)
(***************************************************************************)
\* C13: when the request context was canceled while a backend call of the
\* invocation was in flight, be it the primary call or a check-state or
\* label lookup, the invocation that has ended has ended with an error and
\* without a rendered result.
C13_CancellationEndsInError ==
    (ctx = "canceled" /\ pc = "done") => (~err.IsNil /\ result.IsNil)

(***************************************************************************)
(* Properties of the order of the monitor lookups                          *)
(***************************************************************************)
\* The overview positions from i on whose counter of the target state is not
\* zero, in overview order.
RECURSIVE QualifyingFrom(_)
QualifyingFrom(i) ==
    IF i > Len(overview) THEN <<>>
    ELSE (IF TargetCounter(i) # 0 THEN <<i>> ELSE <<>>) \o QualifyingFrom(i + 1)

\* The check-state lookups issued so far, in the order they were issued.
CheckStateCalls == SubSeq(calls, 2, Len(calls))

\* C14: with a valid state, the check-state lookups follow the overview
\* order: the k-th lookup is for the k-th monitor with a non-zero counter of
\* the target state and carries its id, the target state, page size 10 and
\* offset 0; a lookup is issued only after the one before it was answered and
\* its monitor's rows were written, and a finished invocation made one lookup
\* per such monitor.  A monitor with a zero counter gets no lookup, no row
\* and no count.
C14_OneLookupPerPositiveMonitorInOrder ==
    (tool = "GetMonitors" /\ OverviewReturned) =>
        LET q == QualifyingFrom(1)
            n == Len(CheckStateCalls)
            answered == Len(responses) - 1
        IN  /\ n <= Len(q)
            /\ \A k \in 1..n :
                  CheckStateCalls[k] =
                      [op |-> "GetMonitorCheckStates",
                       args |-> <<ToString(overview[q[k]].Monitor.Id), state, 10, 0>>]
            /\ answered \in {n - 1, n}
            /\ {rowMonitor[i] : i \in 1..Len(rows)} = {q[k] : k \in 1..answered}
            /\ \A i, j \in 1..Len(rows) : i <= j => rowMonitor[i] <= rowMonitor[j]
            /\ \A i \in 1..Len(overview) : TargetCounter(i) = 0 => RowsOfMonitor(i) = <<>>
            /\ pc = "done" =>
                  /\ n = Len(q)
                  /\ answered = n
                  /\ monitorCount = Cardinality({overview[q[k]].Monitor.Name : k \in 1..n})

\* An overview whose first monitor has a zero counter and whose second has
\* not was processed to the end.
C14_Witness ==
    /\ tool = "GetMonitors"
    /\ OverviewReturned
    /\ pc = "done"
    /\ Len(overview) >= 2
    /\ TargetCounter(1) = 0
    /\ TargetCounter(2) # 0
    /\ Len(CheckStateCalls) = 1
    /\ CheckStateCalls[1].args[1] = "102"

(***************************************************************************)
(* Properties of the neighbor parameters                                   *)
(***************************************************************************)
\* The levels the neighbor expansion is documented to take.
ValidLevels == {ToString(i) : i \in 1..14} \cup {"all"}

\* C15: every withNeighborsOf expression GetComponents sends to the backend
\* has a levels argument in 1..14 or "all".
C15_LevelsWithinRange ==
    \A k \in 1..Len(calls) :
        (calls[k].op = "SnapShotTopologyQuery"
         /\ Contains(calls[k].args[1], "withNeighborsOf(")) =>
            \E l \in ValidLevels :
                Contains(calls[k].args[1], "levels = \"" \o l \o "\", direction = ")

(***************************************************************************)
(* Properties of the rows of formatMetrics                                 *)
(***************************************************************************)
RECURSIVE SampleCount(_)
SampleCount(series) ==
    IF Len(series) = 0 THEN 0 ELSE Len(series[1].Points) + SampleCount(Tail(series))

\* The number of lines of a text that ends each line with a line feed.
LineCount(text) == Cardinality({i \in 1..Len(text) : CharAt(text, i) = "\n"})

\* C16: formatMetrics writes one data row per sample of each series: the
\* number of rows is the sum of the sample counts, and row r shows the
\* timestamp and the value of the r-th sample when the samples are listed
\* series by series in input order, each series' samples in their order.
C16_OneRowPerSampleInInputOrder ==
    (RangeAnswered /\ Len(responses[1].value) >= 1) =>
        LET series == responses[1].value
            owners == RowOwnersFrom(series, 1)
            sampleOf(r) == Cardinality({q \in 1..r : owners[q] = owners[r]})
        IN  /\ Len(table.rows) = SampleCount(series)
            /\ LineCount(result.Text) = 2 + SampleCount(series)
            /\ \A r \in 1..Len(table.rows) :
                  LET p == series[owners[r]].Points[sampleOf(r)]
                  IN  /\ table.rows[r][1] = FormatRFC3339(p.Timestamp)
                      /\ table.rows[r][2] = FormatFloat4(p.Value)
                      /\ Contains(result.Text,
                                  "| " \o FormatRFC3339(p.Timestamp) \o " | "
                                  \o FormatFloat4(p.Value) \o " |")

\* Two series were rendered, the first with two samples, the second with one
\* whose timestamp lies between them.
C16_Witness ==
    /\ RangeAnswered
    /\ Len(responses[1].value) = 2
    /\ Len(responses[1].value[1].Points) = 2
    /\ Len(responses[1].value[2].Points) = 1
    /\ responses[1].value[2].Points[1].Timestamp = 30
    /\ Len(table.rows) = 3
    /\ table.rows[3][1] = "1970-01-01T00:00:30Z"

(***************************************************************************)
(* Properties of failed label lookups                                      *)
(***************************************************************************)
EndsWith(s, suffix) ==
    Len(s) >= Len(suffix) /\ SubSeq(s, Len(s) - Len(suffix) + 1, Len(s)) = suffix

\* C17: every label lookup that ended, failed or not, left exactly one row
\* for its metric, in match order; the row of a failed lookup has "-" as its
\* labels; a failure raises no error and does not stop the loop, which
\* issues the lookups of the metrics after it and returns the table.
C17_FailedLookupIsOneDashRow ==
    (ListingAnswered /\ Len(calls) >= 2) =>
        LET matches == Matches
            answered == Len(responses) - 1
            processed == IF Len(matches) > 50 THEN 50 ELSE Len(matches)
        IN  /\ err.IsNil
            /\ Len(table.rows) = answered
            /\ [k \in 1..answered |-> table.rows[k][1]] = SubSeq(matches, 1, answered)
            /\ \A k \in 1..answered :
                  responses[k + 1].failed => table.rows[k][2] = "-"
            /\ (pc = "labels" /\ answered >= 1) =>
                  EndsWith(sb, "| " \o table.rows[answered][1] \o " | "
                               \o table.rows[answered][2] \o " |\n")
            /\ pc = "labels" => Len(calls) = answered + 2
            /\ pc = "done" =>
                  /\ answered = processed
                  /\ ~result.IsNil
                  /\ LineCount(result.Text)
                        = 4 + processed + (IF Len(matches) > 50 THEN 2 ELSE 0)

\* A lookup failed, the next one returned labels, and both metrics have
\* their row in the returned table.
C17_Witness ==
    /\ ListingAnswered
    /\ pc = "done"
    /\ Len(responses) >= 3
    /\ responses[2].failed
    /\ ~responses[3].failed
    /\ table.rows[1] = <<"cpu_1_sum", "-">>
    /\ table.rows[2] = <<"mem_2_count", "instance, job">>

(***************************************************************************)
(* Properties of the raw query and the neighbor parameters                 *)
(***************************************************************************)
\* The invocation ended with the error that rejects the neighbor direction.
DirectionRejected ==
    ~err.IsNil /\ StartsWith(err.Msg, "invalid with_neighbors_direction '")

\* C19: with a non-empty raw query GetComponents ignores with_neighbors, its
\* levels and its direction: the query executed is the raw query, without a
\* rewrite, and the invocation ends with no error other than the backend's,
\* even when the direction is not a valid one.  The direction is rejected
\* exactly when with_neighbors is set, the raw query is empty, a named filter
\* is non-empty and the direction, after its default, is not up, down or both.
C19_RawQueryIgnoresNeighborParameters ==
    (tool = "GetComponents" /\ pc # "start") =>
        /\ params.Query # "" =>
              /\ calls = <<TopologyCall(params.Query)>>
              /\ query = params.Query
              /\ ~Contains(calls[1].args[1], "withNeighborsOf(")
              /\ err.IsNil \/ PrimaryCallFailed
              /\ (pc = "done" /\ ~PrimaryCallFailed) => ~result.IsNil
        /\ DirectionRejected <=>
              /\ params.WithNeighbors
              /\ params.Query = ""
              /\ ~AllFiltersEmpty(params)
              /\ params.WithNeighborsDirection \notin {"", "up", "down", "both"}

\* A raw query was executed and answered although with_neighbors was set with
\* a direction that is not a valid one.
C19_Witness ==
    /\ tool = "GetComponents"
    /\ pc = "done"
    /\ params.Query # ""
    /\ params.WithNeighbors
    /\ params.WithNeighborsDirection = "sideways"
    /\ params.NamePattern # ""
    /\ calls = <<TopologyCall(params.Query)>>
    /\ ~result.IsNil
    /\ err.IsNil

(***************************************************************************)
(* Properties of concurrent invocations                                    *)
(***************************************************************************)
\* The overview positions from i on that GetMonitors looks up for state st.
RECURSIVE SoloPositions(_, _, _)
SoloPositions(ov, st, i) ==
    IF i > Len(ov) THEN <<>>
    ELSE (IF CountFor(ov[i].RuntimeMetrics, st) # 0 THEN <<i>> ELSE <<>>)
         \o SoloPositions(ov, st, i + 1)

\* The rows after the first k lookups of the positions q were answered by
\* resps[2], ..., resps[k + 1].
RECURSIVE SoloRows(_, _, _, _, _)
SoloRows(ov, st, q, resps, k) ==
    IF k = 0 THEN <<>>
    ELSE SoloRows(ov, st, q, resps, k - 1)
         \o MonitorRows(ov[q[k]].Monitor, CountFor(ov[q[k]].RuntimeMetrics, st),
                        resps[k + 1].failed,
                        IF resps[k + 1].failed THEN <<>> ELSE resps[k + 1].value)

\* GetMonitors run alone with parameters p, after the backend gave the
\* responses resps to its calls: the calls it has made, whether it has
\* returned, and what it returned.
SoloRun(p, resps) ==
    LET st == DefaultState(p.State)
        overviewCall == [op |-> "GetMonitorsOverview", args |-> <<>>]
    IN  IF st \notin {"CRITICAL", "DEVIATING", "UNKNOWN"}
        THEN [calls |-> <<>>, done |-> TRUE, result |-> NilResult,
              err |-> Errorf("invalid state '" \o st
                             \o "'. Allowed values: CRITICAL, DEVIATING, UNKNOWN")]
        ELSE IF Len(resps) = 0
        THEN [calls |-> <<overviewCall>>, done |-> FALSE, result |-> NilResult,
              err |-> NilError]
        ELSE IF resps[1].failed
        THEN [calls |-> <<overviewCall>>, done |-> TRUE, result |-> NilResult,
              err |-> Errorf("failed to get monitors overview: " \o resps[1].error)]
        ELSE LET ov == resps[1].value
                 q == SoloPositions(ov, st, 1)
                 answered == Len(resps) - 1
                 issued == IF answered < Len(q) THEN answered + 1 ELSE Len(q)
             IN  [calls |-> <<overviewCall>>
                            \o [k \in 1..issued |->
                                   [op |-> "GetMonitorCheckStates",
                                    args |-> <<ToString(ov[q[k]].Monitor.Id), st, 10, 0>>]],
                  done |-> answered = Len(q),
                  result |-> IF answered = Len(q)
                             THEN TextResult(MonitorsOutput(SoloRows(ov, st, q, resps, answered),
                                                            st))
                             ELSE NilResult,
                  err |-> NilError]

\* SoloRun is what the handler does in an invocation that runs alone.
SoloRunIsTheHandlerAlone ==
    (tool = "GetMonitors" /\ pc # "start") =>
        LET solo == SoloRun(params, responses)
        IN  /\ calls = solo.calls
            /\ (pc = "done") = solo.done
            /\ result = solo.result
            /\ err = solo.err

\* C18: in every interleaving of the steps of concurrent invocations of one
\* tool object, the backend calls an invocation has made, and the result and
\* the error it returns, are those of the same invocation run alone with its
\* parameters and the responses to its own calls: nothing another invocation
\* does changes them.
C18_InvocationsDoNotInterfere ==
    \A i \in DOMAIN invs :
        invs[i].pc # "start" =>
            LET solo == SoloRun(invs[i].params, invs[i].responses)
            IN  /\ invs[i].calls = solo.calls
                /\ (invs[i].pc = "done") = solo.done
                /\ invs[i].result = solo.result
                /\ invs[i].err = solo.err

\* Two invocations for different states, answered with different overviews,
\* are in the middle of their loops at the same time: each has the rows of
\* its first lookup in its frame and its second lookup in flight.
C18_Witness ==
    /\ DOMAIN invs = {1, 2}
    /\ invs[1].params.State # invs[2].params.State
    /\ invs[1].pc = "checkstates"
    /\ invs[2].pc = "checkstates"
    /\ Len(invs[1].responses) = 2
    /\ Len(invs[2].responses) = 2
    /\ Len(invs[1].calls) = 3
    /\ Len(invs[2].calls) = 3
    /\ invs[1].responses[1].value # invs[2].responses[1].value
    /\ Len(frames[Frame(1)].rows) >= 1
    /\ Len(frames[Frame(2)].rows) >= 1

====
